---- MODULE Spec2Model ----
(***************************************************************************)
(* Model of src/command.rs: the command grammar (FromStr for Command,      *)
(* Campaign, Device, Group, Package, Update) and the dispatch engine       *)
(* (Exec for the same types).  A token is a sequence of characters, each   *)
(* character a one-element string name.  The collaborators (Config,        *)
(* Campaigner, Registry, Reposerver, Director and the from_flags/from_file *)
(* conversions) are outside the file: every invocation of one is recorded  *)
(* in `trace`, and whether it succeeds is a nondeterministic choice.       *)
(***************************************************************************)
EXTENDS Naturals, Sequences, FiniteSets, TLC

VARIABLES
    pc,         \* "resolve" | "resolved" | "exec" | a subcommand type | "done"
    token,      \* the top-level command token
    command,    \* Result<Command>: what Command::from_str(token) returned
    sub,        \* clap's subcommand of the flags passed to Command::exec
    resolved,   \* the parsed subcommand value (self of the second exec)
    result,     \* what exec returned: Ok(()), Err(e), or a panic
    trace       \* every collaborator invocation so far, in order

vars == <<pc, token, command, sub, resolved, result, trace>>

-----------------------------------------------------------------------------
(* Bounds *)

\* number of distinct failure values a collaborator may return
NumErrs == 2
\* longest run of extra characters appended to a literal in the token inputs
MaxExt == 1

-----------------------------------------------------------------------------
(* Option, Result and panics *)

NoneV == [tag |-> "None"]
Some(v) == [tag |-> "Some", val |-> v]
Ok(v) == [tag |-> "Ok", val |-> v]
Err(e) == [tag |-> "Err", err |-> e]
Panic(m) == [tag |-> "Panic", msg |-> m]
Unit == <<>>

\* Error::Command(format!("<prefix>{}", s))
CommandError(prefix, s) == [kind |-> "Command", origin |-> prefix, token |-> s]
\* the i-th failure value of collaborator operation op
CollabError(op, i) == [kind |-> "Collaborator", origin |-> op, detail |-> <<ToString(i)>>]
\* the failure of parsing raw into an identifier
ParseError(raw) == [kind |-> "Parse", origin |-> "parse", detail |-> raw]

-----------------------------------------------------------------------------
(* str::to_lowercase.  A character is its Unicode scalar value; the tables   *)
(* are those of Unicode 17.0.                                                 *)

\* <<first, last, step, lower(first)>>: the characters first, first + step,
\* ..., last lower-case to lower(first), lower(first) + step, ...
LowercaseTable ==
    <<
    <<192,214,1,224>>, <<216,222,1,248>>, <<256,302,2,257>>,
    <<306,310,2,307>>, <<313,327,2,314>>, <<330,374,2,331>>,
    <<376,376,1,255>>, <<377,381,2,378>>, <<385,385,1,595>>,
    <<386,388,2,387>>, <<390,390,1,596>>, <<391,391,1,392>>,
    <<393,394,1,598>>, <<395,395,1,396>>, <<398,398,1,477>>,
    <<399,399,1,601>>, <<400,400,1,603>>, <<401,401,1,402>>,
    <<403,403,1,608>>, <<404,404,1,611>>, <<406,406,1,617>>,
    <<407,407,1,616>>, <<408,408,1,409>>, <<412,412,1,623>>,
    <<413,413,1,626>>, <<415,415,1,629>>, <<416,420,2,417>>,
    <<422,422,1,640>>, <<423,423,1,424>>, <<425,425,1,643>>,
    <<428,428,1,429>>, <<430,430,1,648>>, <<431,431,1,432>>,
    <<433,434,1,650>>, <<435,437,2,436>>, <<439,439,1,658>>,
    <<440,440,1,441>>, <<444,444,1,445>>, <<452,452,1,454>>,
    <<453,453,1,454>>, <<455,455,1,457>>, <<456,456,1,457>>,
    <<458,458,1,460>>, <<459,475,2,460>>, <<478,494,2,479>>,
    <<497,497,1,499>>, <<498,500,2,499>>, <<502,502,1,405>>,
    <<503,503,1,447>>, <<504,542,2,505>>, <<544,544,1,414>>,
    <<546,562,2,547>>, <<570,570,1,11365>>, <<571,571,1,572>>,
    <<573,573,1,410>>, <<574,574,1,11366>>, <<577,577,1,578>>,
    <<579,579,1,384>>, <<580,580,1,649>>, <<581,581,1,652>>,
    <<582,590,2,583>>, <<880,882,2,881>>, <<886,886,1,887>>,
    <<895,895,1,1011>>, <<902,902,1,940>>, <<904,906,1,941>>,
    <<908,908,1,972>>, <<910,911,1,973>>, <<913,929,1,945>>,
    <<931,939,1,963>>, <<975,975,1,983>>, <<984,1006,2,985>>,
    <<1012,1012,1,952>>, <<1015,1015,1,1016>>, <<1017,1017,1,1010>>,
    <<1018,1018,1,1019>>, <<1021,1023,1,891>>, <<1024,1039,1,1104>>,
    <<1040,1071,1,1072>>, <<1120,1152,2,1121>>, <<1162,1214,2,1163>>,
    <<1216,1216,1,1231>>, <<1217,1229,2,1218>>, <<1232,1326,2,1233>>,
    <<1329,1366,1,1377>>, <<4256,4293,1,11520>>, <<4295,4295,1,11559>>,
    <<4301,4301,1,11565>>, <<5024,5103,1,43888>>, <<5104,5109,1,5112>>,
    <<7305,7305,1,7306>>, <<7312,7354,1,4304>>, <<7357,7359,1,4349>>,
    <<7680,7828,2,7681>>, <<7838,7838,1,223>>, <<7840,7934,2,7841>>,
    <<7944,7951,1,7936>>, <<7960,7965,1,7952>>, <<7976,7983,1,7968>>,
    <<7992,7999,1,7984>>, <<8008,8013,1,8000>>, <<8025,8031,2,8017>>,
    <<8040,8047,1,8032>>, <<8072,8079,1,8064>>, <<8088,8095,1,8080>>,
    <<8104,8111,1,8096>>, <<8120,8121,1,8112>>, <<8122,8123,1,8048>>,
    <<8124,8124,1,8115>>, <<8136,8139,1,8050>>, <<8140,8140,1,8131>>,
    <<8152,8153,1,8144>>, <<8154,8155,1,8054>>, <<8168,8169,1,8160>>,
    <<8170,8171,1,8058>>, <<8172,8172,1,8165>>, <<8184,8185,1,8056>>,
    <<8186,8187,1,8060>>, <<8188,8188,1,8179>>, <<8486,8486,1,969>>,
    <<8490,8490,1,107>>, <<8491,8491,1,229>>, <<8498,8498,1,8526>>,
    <<8544,8559,1,8560>>, <<8579,8579,1,8580>>, <<9398,9423,1,9424>>,
    <<11264,11311,1,11312>>, <<11360,11360,1,11361>>, <<11362,11362,1,619>>,
    <<11363,11363,1,7549>>, <<11364,11364,1,637>>, <<11367,11371,2,11368>>,
    <<11373,11373,1,593>>, <<11374,11374,1,625>>, <<11375,11375,1,592>>,
    <<11376,11376,1,594>>, <<11378,11378,1,11379>>, <<11381,11381,1,11382>>,
    <<11390,11391,1,575>>, <<11392,11490,2,11393>>, <<11499,11501,2,11500>>,
    <<11506,11506,1,11507>>, <<42560,42604,2,42561>>, <<42624,42650,2,42625>>,
    <<42786,42798,2,42787>>, <<42802,42862,2,42803>>, <<42873,42875,2,42874>>,
    <<42877,42877,1,7545>>, <<42878,42886,2,42879>>, <<42891,42891,1,42892>>,
    <<42893,42893,1,613>>, <<42896,42898,2,42897>>, <<42902,42920,2,42903>>,
    <<42922,42922,1,614>>, <<42923,42923,1,604>>, <<42924,42924,1,609>>,
    <<42925,42925,1,620>>, <<42926,42926,1,618>>, <<42928,42928,1,670>>,
    <<42929,42929,1,647>>, <<42930,42930,1,669>>, <<42931,42931,1,43859>>,
    <<42932,42946,2,42933>>, <<42948,42948,1,42900>>, <<42949,42949,1,642>>,
    <<42950,42950,1,7566>>, <<42951,42953,2,42952>>, <<42955,42955,1,612>>,
    <<42956,42970,2,42957>>, <<42972,42972,1,411>>, <<42997,42997,1,42998>>,
    <<65313,65338,1,65345>>, <<66560,66599,1,66600>>, <<66736,66771,1,66776>>,
    <<66928,66938,1,66967>>, <<66940,66954,1,66979>>, <<66956,66962,1,66995>>,
    <<66964,66965,1,67003>>, <<68736,68786,1,68800>>, <<68944,68965,1,68976>>,
    <<71840,71871,1,71872>>, <<93760,93791,1,93792>>, <<93856,93880,1,93883>>,
    <<125184,125217,1,125218>>
    >>

\* <<first, last>>: the characters with the property Cased
CasedTable ==
    <<
    <<65,90>>, <<97,122>>, <<170,170>>, <<181,181>>, <<186,186>>, <<192,214>>,
    <<216,246>>, <<248,442>>, <<444,447>>, <<452,659>>, <<662,696>>,
    <<704,705>>, <<736,740>>, <<837,837>>, <<880,883>>, <<886,887>>,
    <<890,893>>, <<895,895>>, <<902,902>>, <<904,906>>, <<908,908>>,
    <<910,929>>, <<931,1013>>, <<1015,1153>>, <<1162,1327>>, <<1329,1366>>,
    <<1376,1416>>, <<4256,4293>>, <<4295,4295>>, <<4301,4301>>, <<4304,4346>>,
    <<4348,4351>>, <<5024,5109>>, <<5112,5117>>, <<7296,7306>>, <<7312,7354>>,
    <<7357,7359>>, <<7424,7615>>, <<7680,7957>>, <<7960,7965>>, <<7968,8005>>,
    <<8008,8013>>, <<8016,8023>>, <<8025,8025>>, <<8027,8027>>, <<8029,8029>>,
    <<8031,8061>>, <<8064,8116>>, <<8118,8124>>, <<8126,8126>>, <<8130,8132>>,
    <<8134,8140>>, <<8144,8147>>, <<8150,8155>>, <<8160,8172>>, <<8178,8180>>,
    <<8182,8188>>, <<8305,8305>>, <<8319,8319>>, <<8336,8348>>, <<8450,8450>>,
    <<8455,8455>>, <<8458,8467>>, <<8469,8469>>, <<8473,8477>>, <<8484,8484>>,
    <<8486,8486>>, <<8488,8488>>, <<8490,8493>>, <<8495,8500>>, <<8505,8505>>,
    <<8508,8511>>, <<8517,8521>>, <<8526,8526>>, <<8544,8575>>, <<8579,8580>>,
    <<9398,9449>>, <<11264,11492>>, <<11499,11502>>, <<11506,11507>>,
    <<11520,11557>>, <<11559,11559>>, <<11565,11565>>, <<42560,42605>>,
    <<42624,42653>>, <<42786,42887>>, <<42891,42894>>, <<42896,42972>>,
    <<42993,42998>>, <<43000,43002>>, <<43824,43866>>, <<43868,43881>>,
    <<43888,43967>>, <<64256,64262>>, <<64275,64279>>, <<65313,65338>>,
    <<65345,65370>>, <<66560,66639>>, <<66736,66771>>, <<66776,66811>>,
    <<66928,66938>>, <<66940,66954>>, <<66956,66962>>, <<66964,66965>>,
    <<66967,66977>>, <<66979,66993>>, <<66995,67001>>, <<67003,67004>>,
    <<67456,67456>>, <<67459,67461>>, <<67463,67504>>, <<67506,67514>>,
    <<68736,68786>>, <<68800,68850>>, <<68944,68965>>, <<68976,68997>>,
    <<71840,71903>>, <<93760,93823>>, <<93856,93880>>, <<93883,93907>>,
    <<119808,119892>>, <<119894,119964>>, <<119966,119967>>,
    <<119970,119970>>, <<119973,119974>>, <<119977,119980>>,
    <<119982,119993>>, <<119995,119995>>, <<119997,120003>>,
    <<120005,120069>>, <<120071,120074>>, <<120077,120084>>,
    <<120086,120092>>, <<120094,120121>>, <<120123,120126>>,
    <<120128,120132>>, <<120134,120134>>, <<120138,120144>>,
    <<120146,120485>>, <<120488,120512>>, <<120514,120538>>,
    <<120540,120570>>, <<120572,120596>>, <<120598,120628>>,
    <<120630,120654>>, <<120656,120686>>, <<120688,120712>>,
    <<120714,120744>>, <<120746,120770>>, <<120772,120779>>,
    <<122624,122633>>, <<122635,122654>>, <<122661,122666>>,
    <<122928,122989>>, <<125184,125251>>, <<127280,127305>>,
    <<127312,127337>>, <<127344,127369>>
    >>

\* <<first, last>>: the characters with the property Case_Ignorable
CaseIgnorableTable ==
    <<
    <<39,39>>, <<46,46>>, <<58,58>>, <<94,94>>, <<96,96>>, <<168,168>>,
    <<173,173>>, <<175,175>>, <<180,180>>, <<183,184>>, <<688,879>>,
    <<884,885>>, <<890,890>>, <<900,901>>, <<903,903>>, <<1155,1161>>,
    <<1369,1369>>, <<1375,1375>>, <<1425,1469>>, <<1471,1471>>, <<1473,1474>>,
    <<1476,1477>>, <<1479,1479>>, <<1524,1524>>, <<1536,1541>>, <<1552,1562>>,
    <<1564,1564>>, <<1600,1600>>, <<1611,1631>>, <<1648,1648>>, <<1750,1757>>,
    <<1759,1768>>, <<1770,1773>>, <<1807,1807>>, <<1809,1809>>, <<1840,1866>>,
    <<1958,1968>>, <<2027,2037>>, <<2042,2042>>, <<2045,2045>>, <<2070,2093>>,
    <<2137,2139>>, <<2184,2184>>, <<2192,2193>>, <<2199,2207>>, <<2249,2306>>,
    <<2362,2362>>, <<2364,2364>>, <<2369,2376>>, <<2381,2381>>, <<2385,2391>>,
    <<2402,2403>>, <<2417,2417>>, <<2433,2433>>, <<2492,2492>>, <<2497,2500>>,
    <<2509,2509>>, <<2530,2531>>, <<2558,2558>>, <<2561,2562>>, <<2620,2620>>,
    <<2625,2626>>, <<2631,2632>>, <<2635,2637>>, <<2641,2641>>, <<2672,2673>>,
    <<2677,2677>>, <<2689,2690>>, <<2748,2748>>, <<2753,2757>>, <<2759,2760>>,
    <<2765,2765>>, <<2786,2787>>, <<2810,2815>>, <<2817,2817>>, <<2876,2876>>,
    <<2879,2879>>, <<2881,2884>>, <<2893,2893>>, <<2901,2902>>, <<2914,2915>>,
    <<2946,2946>>, <<3008,3008>>, <<3021,3021>>, <<3072,3072>>, <<3076,3076>>,
    <<3132,3132>>, <<3134,3136>>, <<3142,3144>>, <<3146,3149>>, <<3157,3158>>,
    <<3170,3171>>, <<3201,3201>>, <<3260,3260>>, <<3263,3263>>, <<3270,3270>>,
    <<3276,3277>>, <<3298,3299>>, <<3328,3329>>, <<3387,3388>>, <<3393,3396>>,
    <<3405,3405>>, <<3426,3427>>, <<3457,3457>>, <<3530,3530>>, <<3538,3540>>,
    <<3542,3542>>, <<3633,3633>>, <<3636,3642>>, <<3654,3662>>, <<3761,3761>>,
    <<3764,3772>>, <<3782,3782>>, <<3784,3790>>, <<3864,3865>>, <<3893,3893>>,
    <<3895,3895>>, <<3897,3897>>, <<3953,3966>>, <<3968,3972>>, <<3974,3975>>,
    <<3981,3991>>, <<3993,4028>>, <<4038,4038>>, <<4141,4144>>, <<4146,4151>>,
    <<4153,4154>>, <<4157,4158>>, <<4184,4185>>, <<4190,4192>>, <<4209,4212>>,
    <<4226,4226>>, <<4229,4230>>, <<4237,4237>>, <<4253,4253>>, <<4348,4348>>,
    <<4957,4959>>, <<5906,5908>>, <<5938,5939>>, <<5970,5971>>, <<6002,6003>>,
    <<6068,6069>>, <<6071,6077>>, <<6086,6086>>, <<6089,6099>>, <<6103,6103>>,
    <<6109,6109>>, <<6155,6159>>, <<6211,6211>>, <<6277,6278>>, <<6313,6313>>,
    <<6432,6434>>, <<6439,6440>>, <<6450,6450>>, <<6457,6459>>, <<6679,6680>>,
    <<6683,6683>>, <<6742,6742>>, <<6744,6750>>, <<6752,6752>>, <<6754,6754>>,
    <<6757,6764>>, <<6771,6780>>, <<6783,6783>>, <<6823,6823>>, <<6832,6877>>,
    <<6880,6891>>, <<6912,6915>>, <<6964,6964>>, <<6966,6970>>, <<6972,6972>>,
    <<6978,6978>>, <<7019,7027>>, <<7040,7041>>, <<7074,7077>>, <<7080,7081>>,
    <<7083,7085>>, <<7142,7142>>, <<7144,7145>>, <<7149,7149>>, <<7151,7153>>,
    <<7212,7219>>, <<7222,7223>>, <<7288,7293>>, <<7376,7378>>, <<7380,7392>>,
    <<7394,7400>>, <<7405,7405>>, <<7412,7412>>, <<7416,7417>>, <<7468,7530>>,
    <<7544,7544>>, <<7579,7679>>, <<8125,8125>>, <<8127,8129>>, <<8141,8143>>,
    <<8157,8159>>, <<8173,8175>>, <<8189,8190>>, <<8203,8207>>, <<8216,8217>>,
    <<8228,8228>>, <<8231,8231>>, <<8234,8238>>, <<8288,8292>>, <<8294,8303>>,
    <<8305,8305>>, <<8319,8319>>, <<8336,8348>>, <<8400,8432>>,
    <<11388,11389>>, <<11503,11505>>, <<11631,11631>>, <<11647,11647>>,
    <<11744,11775>>, <<11823,11823>>, <<12293,12293>>, <<12330,12333>>,
    <<12337,12341>>, <<12347,12347>>, <<12441,12446>>, <<12540,12542>>,
    <<40981,40981>>, <<42232,42237>>, <<42508,42508>>, <<42607,42610>>,
    <<42612,42621>>, <<42623,42623>>, <<42652,42655>>, <<42736,42737>>,
    <<42752,42785>>, <<42864,42864>>, <<42888,42890>>, <<42993,42996>>,
    <<43000,43001>>, <<43010,43010>>, <<43014,43014>>, <<43019,43019>>,
    <<43045,43046>>, <<43052,43052>>, <<43204,43205>>, <<43232,43249>>,
    <<43263,43263>>, <<43302,43309>>, <<43335,43345>>, <<43392,43394>>,
    <<43443,43443>>, <<43446,43449>>, <<43452,43453>>, <<43471,43471>>,
    <<43493,43494>>, <<43561,43566>>, <<43569,43570>>, <<43573,43574>>,
    <<43587,43587>>, <<43596,43596>>, <<43632,43632>>, <<43644,43644>>,
    <<43696,43696>>, <<43698,43700>>, <<43703,43704>>, <<43710,43711>>,
    <<43713,43713>>, <<43741,43741>>, <<43756,43757>>, <<43763,43764>>,
    <<43766,43766>>, <<43867,43871>>, <<43881,43883>>, <<44005,44005>>,
    <<44008,44008>>, <<44013,44013>>, <<64286,64286>>, <<64434,64450>>,
    <<65024,65039>>, <<65043,65043>>, <<65056,65071>>, <<65106,65106>>,
    <<65109,65109>>, <<65279,65279>>, <<65287,65287>>, <<65294,65294>>,
    <<65306,65306>>, <<65342,65342>>, <<65344,65344>>, <<65392,65392>>,
    <<65438,65439>>, <<65507,65507>>, <<65529,65531>>, <<66045,66045>>,
    <<66272,66272>>, <<66422,66426>>, <<67456,67461>>, <<67463,67504>>,
    <<67506,67514>>, <<68097,68099>>, <<68101,68102>>, <<68108,68111>>,
    <<68152,68154>>, <<68159,68159>>, <<68325,68326>>, <<68900,68903>>,
    <<68942,68942>>, <<68969,68973>>, <<68975,68975>>, <<69291,69292>>,
    <<69317,69317>>, <<69370,69375>>, <<69446,69456>>, <<69506,69509>>,
    <<69633,69633>>, <<69688,69702>>, <<69744,69744>>, <<69747,69748>>,
    <<69759,69761>>, <<69811,69814>>, <<69817,69818>>, <<69821,69821>>,
    <<69826,69826>>, <<69837,69837>>, <<69888,69890>>, <<69927,69931>>,
    <<69933,69940>>, <<70003,70003>>, <<70016,70017>>, <<70070,70078>>,
    <<70089,70092>>, <<70095,70095>>, <<70191,70193>>, <<70196,70196>>,
    <<70198,70199>>, <<70206,70206>>, <<70209,70209>>, <<70367,70367>>,
    <<70371,70378>>, <<70400,70401>>, <<70459,70460>>, <<70464,70464>>,
    <<70502,70508>>, <<70512,70516>>, <<70587,70592>>, <<70606,70606>>,
    <<70608,70608>>, <<70610,70610>>, <<70625,70626>>, <<70712,70719>>,
    <<70722,70724>>, <<70726,70726>>, <<70750,70750>>, <<70835,70840>>,
    <<70842,70842>>, <<70847,70848>>, <<70850,70851>>, <<71090,71093>>,
    <<71100,71101>>, <<71103,71104>>, <<71132,71133>>, <<71219,71226>>,
    <<71229,71229>>, <<71231,71232>>, <<71339,71339>>, <<71341,71341>>,
    <<71344,71349>>, <<71351,71351>>, <<71453,71453>>, <<71455,71455>>,
    <<71458,71461>>, <<71463,71467>>, <<71727,71735>>, <<71737,71738>>,
    <<71995,71996>>, <<71998,71998>>, <<72003,72003>>, <<72148,72151>>,
    <<72154,72155>>, <<72160,72160>>, <<72193,72202>>, <<72243,72248>>,
    <<72251,72254>>, <<72263,72263>>, <<72273,72278>>, <<72281,72283>>,
    <<72330,72342>>, <<72344,72345>>, <<72544,72544>>, <<72546,72548>>,
    <<72550,72550>>, <<72752,72758>>, <<72760,72765>>, <<72767,72767>>,
    <<72850,72871>>, <<72874,72880>>, <<72882,72883>>, <<72885,72886>>,
    <<73009,73014>>, <<73018,73018>>, <<73020,73021>>, <<73023,73029>>,
    <<73031,73031>>, <<73104,73105>>, <<73109,73109>>, <<73111,73111>>,
    <<73177,73177>>, <<73459,73460>>, <<73472,73473>>, <<73526,73530>>,
    <<73536,73536>>, <<73538,73538>>, <<73562,73562>>, <<78896,78912>>,
    <<78919,78933>>, <<90398,90409>>, <<90413,90415>>, <<92912,92916>>,
    <<92976,92982>>, <<92992,92995>>, <<93504,93506>>, <<93547,93548>>,
    <<94031,94031>>, <<94095,94111>>, <<94176,94177>>, <<94179,94180>>,
    <<94194,94195>>, <<110576,110579>>, <<110581,110587>>, <<110589,110590>>,
    <<113821,113822>>, <<113824,113827>>, <<118528,118573>>,
    <<118576,118598>>, <<119143,119145>>, <<119155,119170>>,
    <<119173,119179>>, <<119210,119213>>, <<119362,119364>>,
    <<121344,121398>>, <<121403,121452>>, <<121461,121461>>,
    <<121476,121476>>, <<121499,121503>>, <<121505,121519>>,
    <<122880,122886>>, <<122888,122904>>, <<122907,122913>>,
    <<122915,122916>>, <<122918,122922>>, <<122928,122989>>,
    <<123023,123023>>, <<123184,123197>>, <<123566,123566>>,
    <<123628,123631>>, <<124139,124143>>, <<124398,124399>>,
    <<124643,124643>>, <<124646,124646>>, <<124654,124655>>,
    <<124661,124661>>, <<124671,124671>>, <<125136,125142>>,
    <<125252,125259>>, <<127995,127999>>, <<917505,917505>>,
    <<917536,917631>>, <<917760,917999>>
    >>

\* U+0130 LATIN CAPITAL LETTER I WITH DOT ABOVE lower-cases to "i" followed
\* by U+0307 COMBINING DOT ABOVE: the only character with a lower case of two.
CapitalIDot == 304
CombiningDot == 775
\* U+212A KELVIN SIGN lower-cases to "k"
KelvinSign == 8490
\* U+03A3 GREEK CAPITAL LETTER SIGMA, U+03C3 SMALL SIGMA, U+03C2 FINAL SIGMA
CapitalSigma == 931
SmallSigma == 963
FinalSigma == 962

InTable(c, table) == \E i \in 1..Len(table) : table[i][1] <= c /\ c <= table[i][2]
Cased(c) == InTable(c, CasedTable)
CaseIgnorable(c) == InTable(c, CaseIgnorableTable)

\* char::to_lowercase
ToLowerChar(c) ==
    IF c < 128 THEN (IF 65 <= c /\ c <= 90 THEN <<c + 32>> ELSE <<c>>)
    ELSE IF c = CapitalIDot THEN <<105, CombiningDot>>
    ELSE LET hit == {i \in 1..Len(LowercaseTable) :
                        /\ LowercaseTable[i][1] <= c
                        /\ c <= LowercaseTable[i][2]
                        /\ (c - LowercaseTable[i][1]) % LowercaseTable[i][3] = 0}
         IN  IF hit = {} THEN <<c>>
             ELSE LET r == LowercaseTable[CHOOSE i \in hit : TRUE]
                  IN  <<r[4] + (c - r[1])>>

\* the first character of s that is not Case_Ignorable exists and is Cased
RECURSIVE CaseIgnorableThenCased(_)
CaseIgnorableThenCased(s) ==
    IF s = <<>> THEN FALSE
    ELSE IF CaseIgnorable(Head(s)) THEN CaseIgnorableThenCased(Tail(s))
    ELSE Cased(Head(s))

Reversed(s) == [i \in 1..Len(s) |-> s[Len(s) + 1 - i]]

\* the capital sigma at position i of from is a final sigma when a cased
\* letter precedes it and none follows it, case-ignorable characters skipped
MapUppercaseSigma(from, i) ==
    IF /\ CaseIgnorableThenCased(Reversed(SubSeq(from, 1, i - 1)))
       /\ ~CaseIgnorableThenCased(SubSeq(from, i + 1, Len(from)))
    THEN <<FinalSigma>>
    ELSE <<SmallSigma>>

RECURSIVE LowercaseFrom(_, _)
LowercaseFrom(s, i) ==
    IF i > Len(s) THEN <<>>
    ELSE (IF s[i] = CapitalSigma THEN MapUppercaseSigma(s, i) ELSE ToLowerChar(s[i]))
         \o LowercaseFrom(s, i + 1)

ToLowercase(s) == LowercaseFrom(s, 1)

\* notation for ASCII text: the scalar values of a sequence of letters
LowerLetters == <<"a","b","c","d","e","f","g","h","i","j","k","l","m",
                  "n","o","p","q","r","s","t","u","v","w","x","y","z">>
UpperLetters == <<"A","B","C","D","E","F","G","H","I","J","K","L","M",
                  "N","O","P","Q","R","S","T","U","V","W","X","Y","Z">>

Code(ch) ==
    IF \E i \in 1..26 : LowerLetters[i] = ch
    THEN 96 + (CHOOSE i \in 1..26 : LowerLetters[i] = ch)
    ELSE IF \E i \in 1..26 : UpperLetters[i] = ch
    THEN 64 + (CHOOSE i \in 1..26 : UpperLetters[i] = ch)
    ELSE IF ch = " " THEN 32
    ELSE 45

Text(letters) == [i \in 1..Len(letters) |-> Code(letters[i])]

-----------------------------------------------------------------------------
(* The literals of the grammar *)

L_init == Text(<<"i","n","i","t">>)
L_campaign == Text(<<"c","a","m","p","a","i","g","n">>)
L_device == Text(<<"d","e","v","i","c","e">>)
L_group == Text(<<"g","r","o","u","p">>)
L_package == Text(<<"p","a","c","k","a","g","e">>)
L_update == Text(<<"u","p","d","a","t","e">>)

L_list == Text(<<"l","i","s","t">>)
L_create == Text(<<"c","r","e","a","t","e">>)
L_launch == Text(<<"l","a","u","n","c","h">>)
L_cancel == Text(<<"c","a","n","c","e","l">>)
L_delete == Text(<<"d","e","l","e","t","e">>)
L_add == Text(<<"a","d","d">>)
L_rename == Text(<<"r","e","n","a","m","e">>)
L_remove == Text(<<"r","e","m","o","v","e">>)
L_fetch == Text(<<"f","e","t","c","h">>)

-----------------------------------------------------------------------------
(* impl FromStr for Command, Campaign, Device, Group, Package, Update *)

CommandFromStrCaseSensitive(s) ==
    CASE s = L_init     -> Ok("Init")
      [] s = L_campaign -> Ok("Campaign")
      [] s = L_device   -> Ok("Device")
      [] s = L_group    -> Ok("Group")
      [] s = L_package  -> Ok("Package")
      [] s = L_update   -> Ok("Update")
      [] OTHER -> Err(CommandError("unknown command: ", s))

CommandFromStr(s) ==
    LET l == ToLowercase(s) IN
    CASE l = L_init     -> Ok("Init")
      [] l = L_campaign -> Ok("Campaign")
      [] l = L_device   -> Ok("Device")
      [] l = L_group    -> Ok("Group")
      [] l = L_package  -> Ok("Package")
      [] l = L_update   -> Ok("Update")
      [] OTHER -> Err(CommandError("unknown command: ", s))

CampaignFromStr(s) ==
    LET l == ToLowercase(s) IN
    CASE l = L_list   -> Ok("List")
      [] l = L_create -> Ok("Create")
      [] l = L_launch -> Ok("Launch")
      [] l = L_cancel -> Ok("Cancel")
      [] OTHER -> Err(CommandError("unknown campaign subcommand: ", s))

DeviceFromStr(s) ==
    LET l == ToLowercase(s) IN
    CASE l = L_list   -> Ok("List")
      [] l = L_create -> Ok("Create")
      [] l = L_delete -> Ok("Delete")
      [] OTHER -> Err(CommandError("unknown device subcommand: ", s))

GroupFromStr(s) ==
    LET l == ToLowercase(s) IN
    CASE l = L_list   -> Ok("List")
      [] l = L_create -> Ok("Create")
      [] l = L_add    -> Ok("Add")
      [] l = L_rename -> Ok("Rename")
      [] l = L_remove -> Ok("Remove")
      [] OTHER -> Err(CommandError("unknown group subcommand: ", s))

PackageFromStr(s) ==
    LET l == ToLowercase(s) IN
    CASE l = L_list  -> Ok("List")
      [] l = L_add   -> Ok("Add")
      [] l = L_fetch -> Ok("Fetch")
      [] OTHER -> Err(CommandError("unknown package subcommand: ", s))

UpdateFromStrFlat(s) ==
    LET l == ToLowercase(s) IN
    CASE l = L_create -> Ok("Create")
      [] l = L_launch -> Ok("Launch")
      [] l = L_list   -> Ok("Create")
      [] OTHER -> Err(CommandError("unknown update subcommand: ", s))

UpdateFromStr(s) ==
    LET l == ToLowercase(s) IN
    CASE l = L_create -> Ok("Create")
      [] l = L_launch -> Ok("Launch")
      [] OTHER -> Err(CommandError("unknown update subcommand: ", s))

-----------------------------------------------------------------------------
(* clap's ArgMatches: the named values of a subcommand *)

FlagNames == {"name", "id", "device", "group", "campaign", "update", "targets", "version"}
IdFlags == {"device", "group", "campaign", "update"}

WellFormed(f) == <<f, "wellformed">>
Malformed(f) == <<f, "malformed">>

\* what value_of(f) may return: None when the flag is absent
FlagInputs(f) ==
    {NoneV, Some(WellFormed(f))} \cup (IF f \in IdFlags THEN {Some(Malformed(f))} ELSE {})

ArgMatches ==
    {[f \in FlagNames |->
        IF f \notin present THEN NoneV
        ELSE IF f \in bad THEN Some(Malformed(f)) ELSE Some(WellFormed(f))] :
     present \in SUBSET FlagNames, bad \in SUBSET IdFlags}

\* str::parse into the identifier type of the backend operation
ParseId(raw) ==
    IF raw[2] = "wellformed" THEN Ok([id |-> raw]) ELSE Err(ParseError(raw))

-----------------------------------------------------------------------------
(* Collaborators *)

\* 0 selects success, i in 1..NumErrs the i-th failure value
OutcomeSel == 0..NumErrs

Outcome(op, sel, val) == IF sel = 0 THEN Ok(val) ELSE Err(CollabError(op, sel))

Ev(kind, op, args, ret) == [kind |-> kind, op |-> op, args |-> args, ret |-> ret]

\* the value a successful conversion yields
Converted(op, input) == [type |-> op, of |-> input]

-----------------------------------------------------------------------------
(* The closures of the exec bodies and the evaluation of a call's arguments. *)
(* st = [t: the trace, args: the arguments evaluated so far, r: NoneV while  *)
(* the body is still running, else what the body ended with]                 *)

\* || flags.value_of(f).expect("--f")
StrClosure(f, flags, st) ==
    LET v == flags[f]
        t1 == Append(st.t, Ev("value_of", f, <<>>, v))
    IN  IF v.tag = "None"
        THEN [st EXCEPT !.t = t1, !.r = Panic(<<"--", f>>)]
        ELSE [st EXCEPT !.t = t1, !.args = Append(@, v.val)]

\* the bug of going on with a default identifier when the parse fails
IdClosureLenient(f, flags, st) ==
    LET v == flags[f]
        t1 == Append(st.t, Ev("value_of", f, <<>>, v))
    IN  IF v.tag = "None"
        THEN [st EXCEPT !.t = t1, !.r = Panic(<<"--", f>>)]
        ELSE LET p == ParseId(v.val)
                 t2 == Append(t1, Ev("parse", f, <<v.val>>, p))
             IN  IF p.tag = "Err"
                 THEN [st EXCEPT !.t = t2, !.args = Append(@, [id |-> WellFormed(f)])]
                 ELSE [st EXCEPT !.t = t2, !.args = Append(@, p.val)]

\* (|| flags.value_of(f).expect("--f").parse())()?
IdClosure(f, flags, st) ==
    LET v == flags[f]
        t1 == Append(st.t, Ev("value_of", f, <<>>, v))
    IN  IF v.tag = "None"
        THEN [st EXCEPT !.t = t1, !.r = Panic(<<"--", f>>)]
        ELSE LET p == ParseId(v.val)
                 t2 == Append(t1, Ev("parse", f, <<v.val>>, p))
             IN  IF p.tag = "Err"
                 THEN [st EXCEPT !.t = t2, !.r = p]
                 ELSE [st EXCEPT !.t = t2, !.args = Append(@, p.val)]

\* One argument expression of a backend call:
\*   "flags"       flags
\*   "str"         name(), id(), version(), targets()
\*   "id"          campaign()?, device()?, group()?, update()?
\*   "from_flags"  DeviceType::from_flags(flags)?, TargetPackage::from_flags(flags)?
\*   "from_arg"    TargetRequests::from_file(<the argument before>)?
\*   "from"        TufUpdates::from(<the argument before>)
ArgStep(s, flags, conv, st) ==
    CASE s.k = "flags" -> [st EXCEPT !.args = Append(@, flags)]
      [] s.k = "str"   -> StrClosure(s.f, flags, st)
      [] s.k = "id"    -> IdClosure(s.f, flags, st)
      [] s.k = "from_flags" ->
            LET r == Outcome(s.f, conv, Converted(s.f, flags))
                t1 == Append(st.t, Ev("convert", s.f, <<flags>>, r))
            IN  IF r.tag = "Err"
                THEN [st EXCEPT !.t = t1, !.r = r]
                ELSE [st EXCEPT !.t = t1, !.args = Append(@, r.val)]
      [] s.k = "from_arg" ->
            LET n == Len(st.args)
                in == st.args[n]
                r == Outcome(s.f, conv, Converted(s.f, in))
                t1 == Append(st.t, Ev("convert", s.f, <<in>>, r))
            IN  IF r.tag = "Err"
                THEN [st EXCEPT !.t = t1, !.r = r]
                ELSE [st EXCEPT !.t = t1, !.args = [@ EXCEPT ![n] = r.val]]
      [] s.k = "from" ->
            LET n == Len(st.args)
                in == st.args[n]
                out == Converted(s.f, in)
            IN  [st EXCEPT !.t = Append(@, Ev("convert", s.f, <<in>>, Ok(out))),
                           !.args = [@ EXCEPT ![n] = out]]

\* the arguments of a call are evaluated left to right; the first panic or
\* `?` failure ends the body
RECURSIVE EvalArgs(_, _, _, _)
EvalArgs(steps, flags, conv, st) ==
    IF steps = <<>> \/ st.r.tag # "None" THEN st
    ELSE EvalArgs(Tail(steps), flags, conv, ArgStep(Head(steps), flags, conv, st))

Arg(k, f) == [k |-> k, f |-> f]
Call(op, steps) == [op |-> op, steps |-> steps]

-----------------------------------------------------------------------------
(* The match arms of the five exec bodies *)

CampaignArm(self) ==
    CASE self = "List"   -> Call("Campaigner::list_from_flags", <<Arg("flags", "")>>)
      [] self = "Create" -> Call("Campaigner::create_from_flags", <<Arg("flags", "")>>)
      [] self = "Launch" -> Call("Campaigner::launch_campaign", <<Arg("id", "campaign")>>)
      [] self = "Cancel" -> Call("Campaigner::cancel_campaign", <<Arg("id", "campaign")>>)

DeviceArm(self) ==
    CASE self = "List"   -> Call("Registry::list_device_flags", <<Arg("flags", "")>>)
      [] self = "Create" -> Call("Registry::create_device",
                                 <<Arg("str", "name"), Arg("str", "id"),
                                   Arg("from_flags", "DeviceType::from_flags")>>)
      [] self = "Delete" -> Call("Registry::delete_device", <<Arg("id", "device")>>)

GroupArmSwapped(self) ==
    CASE self = "List"   -> Call("Registry::list_group_flags", <<Arg("flags", "")>>)
      [] self = "Create" -> Call("Registry::create_group", <<Arg("str", "name")>>)
      [] self = "Add"    -> Call("Registry::add_to_group",
                                 <<Arg("id", "group"), Arg("id", "device")>>)
      [] self = "Remove" -> Call("Registry::add_to_group",
                                 <<Arg("id", "group"), Arg("id", "device")>>)
      [] self = "Rename" -> Call("Registry::rename_group",
                                 <<Arg("id", "group"), Arg("str", "name")>>)

GroupArm(self) ==
    CASE self = "List"   -> Call("Registry::list_group_flags", <<Arg("flags", "")>>)
      [] self = "Create" -> Call("Registry::create_group", <<Arg("str", "name")>>)
      [] self = "Add"    -> Call("Registry::add_to_group",
                                 <<Arg("id", "group"), Arg("id", "device")>>)
      [] self = "Remove" -> Call("Registry::remove_from_group",
                                 <<Arg("id", "group"), Arg("id", "device")>>)
      [] self = "Rename" -> Call("Registry::rename_group",
                                 <<Arg("id", "group"), Arg("str", "name")>>)

PackageArm(self) ==
    CASE self = "List"  -> Call("panic!", <<>>)
      [] self = "Add"   -> Call("Reposerver::add_package",
                                <<Arg("from_flags", "TargetPackage::from_flags")>>)
      [] self = "Fetch" -> Call("Reposerver::get_package",
                                <<Arg("str", "name"), Arg("str", "version")>>)

\* the bug of handing the target requests over without composing them
UpdateArmUncomposed(self) ==
    CASE self = "Create" -> Call("Director::create_mtu",
                                 <<Arg("str", "targets"),
                                   Arg("from_arg", "TargetRequests::from_file")>>)
      [] self = "Launch" -> Call("Director::launch_mtu",
                                 <<Arg("id", "update"), Arg("id", "device")>>)

UpdateArm(self) ==
    CASE self = "Create" -> Call("Director::create_mtu",
                                 <<Arg("str", "targets"),
                                   Arg("from_arg", "TargetRequests::from_file"),
                                   Arg("from", "TufUpdates::from")>>)
      [] self = "Launch" -> Call("Director::launch_mtu",
                                 <<Arg("id", "update"), Arg("id", "device")>>)

-----------------------------------------------------------------------------
(* The body shared by the five subcommand exec functions:                    *)
(*   let mut config = Config::load_default()?;  match self { arm }           *)
(* cfg, conv and ret select what load_default, the conversion of the arm and *)
(* the backend operation return.  The value is [r: the result, t: the trace] *)

\* the bug of calling the backend operation again when it fails
ExecBodyRetry(arm, flags, cfg, conv, ret, t0) ==
    LET c == Outcome("Config::load_default", cfg, Unit)
        t1 == Append(t0, Ev("config", "Config::load_default", <<>>, c))
    IN  IF c.tag = "Err" THEN [r |-> c, t |-> t1]
        ELSE IF arm.op = "panic!"
        THEN [r |-> Panic(<<"API not yet supported">>), t |-> t1]
        ELSE LET st == EvalArgs(arm.steps, flags, conv, [t |-> t1, args |-> <<>>, r |-> NoneV])
             IN  IF st.r.tag # "None" THEN [r |-> st.r, t |-> st.t]
                 ELSE LET b == Outcome(arm.op, ret, Unit)
                          t2 == Append(st.t, Ev("backend", arm.op, st.args, b))
                      IN  IF b.tag = "Err"
                          THEN [r |-> Ok(Unit),
                                t |-> Append(t2, Ev("backend", arm.op, st.args, Ok(Unit)))]
                          ELSE [r |-> b, t |-> t2]

\* the bug of evaluating the match arm before the configuration is loaded
ExecBodyArmFirst(arm, flags, cfg, conv, ret, t0) ==
    IF arm.op = "panic!"
    THEN [r |-> Panic(<<"API not yet supported">>), t |-> t0]
    ELSE LET st == EvalArgs(arm.steps, flags, conv, [t |-> t0, args |-> <<>>, r |-> NoneV])
         IN  IF st.r.tag # "None" THEN [r |-> st.r, t |-> st.t]
             ELSE LET c == Outcome("Config::load_default", cfg, Unit)
                      t1 == Append(st.t, Ev("config", "Config::load_default", <<>>, c))
                  IN  IF c.tag = "Err" THEN [r |-> c, t |-> t1]
                      ELSE LET b == Outcome(arm.op, ret, Unit)
                           IN  [r |-> b, t |-> Append(t1, Ev("backend", arm.op, st.args, b))]

ExecBody(arm, flags, cfg, conv, ret, t0) ==
    LET c == Outcome("Config::load_default", cfg, Unit)
        t1 == Append(t0, Ev("config", "Config::load_default", <<>>, c))
    IN  IF c.tag = "Err" THEN [r |-> c, t |-> t1]
        ELSE IF arm.op = "panic!"
        THEN [r |-> Panic(<<"API not yet supported">>), t |-> t1]
        ELSE LET st == EvalArgs(arm.steps, flags, conv, [t |-> t1, args |-> <<>>, r |-> NoneV])
             IN  IF st.r.tag # "None" THEN [r |-> st.r, t |-> st.t]
                 ELSE LET b == Outcome(arm.op, ret, Unit)
                      IN  [r |-> b, t |-> Append(st.t, Ev("backend", arm.op, st.args, b))]

-----------------------------------------------------------------------------
(* Inputs *)

Commands == {"Init", "Campaign", "Device", "Group", "Package", "Update"}

CommandLiteral(c) ==
    CASE c = "Init" -> L_init [] c = "Campaign" -> L_campaign [] c = "Device" -> L_device
      [] c = "Group" -> L_group [] c = "Package" -> L_package [] c = "Update" -> L_update

CommandLiterals == {CommandLiteral(c) : c \in Commands}
SubLiterals == {L_list, L_create, L_launch, L_cancel, L_delete, L_add, L_rename,
                L_remove, L_fetch}

\* the upper-case ASCII letter of a lower-case one
ToUpperChar(c) == IF 97 <= c /\ c <= 122 THEN c - 32 ELSE c

\* every mix of upper and lower case of a literal
CaseMixes(lit) ==
    {[i \in 1..Len(lit) |-> IF i \in up THEN ToUpperChar(lit[i]) ELSE lit[i]] :
     up \in SUBSET (1..Len(lit))}

ProperPrefixes(lit) == {SubSeq(lit, 1, n) : n \in 0..(Len(lit) - 1)}

Extensions(lit) == {lit \o [i \in 1..n |-> c] : n \in 1..MaxExt, c \in {Code("s"), Code("-"), Code(" ")}}

\* a literal with one character replaced by a non-ASCII character that
\* lower-cases to it or nearly to it, or followed by a non-ASCII character
NonAsciiInputs == {201, 233, 913, 929, CapitalSigma, SmallSigma, FinalSigma, CombiningDot}
Lookalikes(lit) ==
    {[lit EXCEPT ![i] = KelvinSign] : i \in {j \in 1..Len(lit) : lit[j] = Code("k")}}
    \cup {[lit EXCEPT ![i] = CapitalIDot] : i \in {j \in 1..Len(lit) : lit[j] = Code("i")}}
    \cup {[lit EXCEPT ![Len(lit)] = c] : c \in NonAsciiInputs}
    \cup {lit \o <<c>> : c \in NonAsciiInputs}

Abbreviations == {Text(<<"c","m","p">>), Text(<<"d","v","c">>), Text(<<"g","r","p">>),
                  Text(<<"p","k","g">>), Text(<<"u","p","d","t">>), Text(<<"i","n","t">>)}

TopTokenInputs ==
    UNION {CaseMixes(l) \cup ProperPrefixes(l) \cup Extensions(l) \cup Lookalikes(l) :
           l \in CommandLiterals}
    \cup Abbreviations \cup SubLiterals

SubTokenInputs ==
    SubLiterals
    \cup {Text(<<"L","I","S","T">>), Text(<<"C","r","e","a","t","e">>),
          Text(<<"l","A","U","N","C","H">>), Text(<<"l","i","s">>),
          Text(<<"f","r","o","b">>), L_add \o <<CapitalSigma>>}
    \cup Extensions(L_add)

SubInputs == {NoneV} \cup {Some([name |-> n, flags |-> m]) : n \in SubTokenInputs, m \in ArgMatches}

-----------------------------------------------------------------------------
(* Command::from_str applied to the top-level token *)

ResolveCommand ==
    /\ pc = "resolve"
    /\ command' = CommandFromStr(token)
    /\ pc' = "resolved"
    /\ UNCHANGED <<token, sub, resolved, result, trace>>

-----------------------------------------------------------------------------
(* impl Exec for Command *)

\* cmd.parse::<T>() for the subcommand type T
SubFromStr(type, cmd) ==
    CASE type = "Campaign" -> CampaignFromStr(cmd)
      [] type = "Device"   -> DeviceFromStr(cmd)
      [] type = "Group"    -> GroupFromStr(cmd)
      [] type = "Package"  -> PackageFromStr(cmd)
      [] type = "Update"   -> UpdateFromStr(cmd)

Direct(op) == [kind |-> "direct", op |-> op, expect |-> <<>>]
Parsed(type, expect) == [kind |-> "parsed", op |-> type, expect |-> <<expect>>]

\* the bug of giving Init a subcommand like the other commands
CommandArmInitParsed(self) ==
    CASE self = "Init"     -> Parsed("Package", "package args")
      [] self = "Campaign" -> Parsed("Campaign", "campaign args")
      [] self = "Device"   -> Parsed("Device", "device args")
      [] self = "Group"    -> Parsed("Group", "group args")
      [] self = "Package"  -> Parsed("Package", "package args")
      [] self = "Update"   -> Parsed("Update", "update args")

\* the match arms of Command::exec
CommandArm(self) ==
    CASE self = "Init"     -> Direct("Config::init_from_flags")
      [] self = "Campaign" -> Parsed("Campaign", "campaign args")
      [] self = "Device"   -> Parsed("Device", "device args")
      [] self = "Group"    -> Parsed("Group", "group args")
      [] self = "Package"  -> Parsed("Package", "package args")
      [] self = "Update"   -> Parsed("Update", "update args")

\* flags.subcommand(): ("", None) when there is no subcommand
SubcommandName == IF sub.tag = "None" THEN <<>> ELSE sub.val.name
SubcommandArgs == IF sub.tag = "None" THEN NoneV ELSE Some(sub.val.flags)

Finish(r, t) ==
    /\ result' = r
    /\ trace' = t
    /\ pc' = "done"

CommandExec ==
    /\ pc = "exec"
    /\ LET arm == CommandArm(command.val)
           cmd == SubcommandName
           args == SubcommandArgs
       IN  IF arm.kind = "direct"
           THEN \E sel \in OutcomeSel :
                  LET r == Outcome(arm.op, sel, Unit)
                  IN  /\ Finish(r, Append(trace, Ev("config", arm.op, <<>>, r)))
                      /\ UNCHANGED resolved
           ELSE LET p == SubFromStr(arm.op, cmd)
                    t1 == Append(trace, Ev("resolve", arm.op, <<cmd>>, p))
                IN  IF p.tag = "Err"
                    THEN Finish(p, t1) /\ UNCHANGED resolved
                    ELSE IF args.tag = "None"
                    THEN Finish(Panic(arm.expect), t1) /\ UNCHANGED resolved
                    ELSE /\ resolved' = p.val
                         /\ trace' = t1
                         /\ pc' = arm.op
                         /\ UNCHANGED result
    /\ UNCHANGED <<token, command, sub>>

-----------------------------------------------------------------------------
(* impl Exec for Campaign, Device, Group, Package, Update *)

CampaignExec ==
    /\ pc = "Campaign"
    /\ \E cfg \in OutcomeSel, conv \in OutcomeSel, ret \in OutcomeSel :
         LET o == ExecBody(CampaignArm(resolved), sub.val.flags, cfg, conv, ret, trace)
         IN  Finish(o.r, o.t)
    /\ UNCHANGED <<token, command, sub, resolved>>

DeviceExec ==
    /\ pc = "Device"
    /\ \E cfg \in OutcomeSel, conv \in OutcomeSel, ret \in OutcomeSel :
         LET o == ExecBody(DeviceArm(resolved), sub.val.flags, cfg, conv, ret, trace)
         IN  Finish(o.r, o.t)
    /\ UNCHANGED <<token, command, sub, resolved>>

GroupExec ==
    /\ pc = "Group"
    /\ \E cfg \in OutcomeSel, conv \in OutcomeSel, ret \in OutcomeSel :
         LET o == ExecBody(GroupArm(resolved), sub.val.flags, cfg, conv, ret, trace)
         IN  Finish(o.r, o.t)
    /\ UNCHANGED <<token, command, sub, resolved>>

PackageExec ==
    /\ pc = "Package"
    /\ \E cfg \in OutcomeSel, conv \in OutcomeSel, ret \in OutcomeSel :
         LET o == ExecBody(PackageArm(resolved), sub.val.flags, cfg, conv, ret, trace)
         IN  Finish(o.r, o.t)
    /\ UNCHANGED <<token, command, sub, resolved>>

UpdateExec ==
    /\ pc = "Update"
    /\ \E cfg \in OutcomeSel, conv \in OutcomeSel, ret \in OutcomeSel :
         LET o == ExecBody(UpdateArm(resolved), sub.val.flags, cfg, conv, ret, trace)
         IN  Finish(o.r, o.t)
    /\ UNCHANGED <<token, command, sub, resolved>>

-----------------------------------------------------------------------------
(* Specifications *)

\* one run of exec on a resolved command
Init ==
    /\ pc = "exec"
    /\ \E c \in Commands : token = CommandLiteral(c) /\ command = Ok(c)
    /\ sub \in SubInputs
    /\ resolved = ""
    /\ result = NoneV
    /\ trace = <<>>

Next ==
    \/ CommandExec
    \/ CampaignExec
    \/ DeviceExec
    \/ GroupExec
    \/ PackageExec
    \/ UpdateExec

Spec == Init /\ [][Next]_vars

\* the resolution of one top-level token
InitResolve ==
    /\ pc = "resolve"
    /\ token \in TopTokenInputs
    /\ command = NoneV
    /\ sub = NoneV
    /\ resolved = ""
    /\ result = NoneV
    /\ trace = <<>>

NextResolve == ResolveCommand

SpecResolve == InitResolve /\ [][NextResolve]_vars

-----------------------------------------------------------------------------
(* Vocabulary of the properties *)

Done == pc = "done"
Self == command.val
Flags == sub.val.flags
IsKind(k, e) == e.kind = k
BackendCalls == SelectSeq(trace, LAMBDA e : e.kind = "backend")
Indexes(k) == {i \in 1..Len(trace) : trace[i].kind = k}
ConfigLoaded ==
    \E i \in Indexes("config") :
        trace[i].op = "Config::load_default" /\ trace[i].ret.tag = "Ok"

\* the literal sets of the grammar, per parent command
OwnLiterals(c) ==
    CASE c = "Campaign" -> {L_list, L_create, L_launch, L_cancel}
      [] c = "Device"   -> {L_list, L_create, L_delete}
      [] c = "Group"    -> {L_list, L_create, L_add, L_rename, L_remove}
      [] c = "Package"  -> {L_list, L_add, L_fetch}
      [] c = "Update"   -> {L_create, L_launch}

SubValue(l) ==
    CASE l = L_list -> "List" [] l = L_create -> "Create" [] l = L_launch -> "Launch"
      [] l = L_cancel -> "Cancel" [] l = L_delete -> "Delete" [] l = L_add -> "Add"
      [] l = L_rename -> "Rename" [] l = L_remove -> "Remove" [] l = L_fetch -> "Fetch"

UnknownSubcommandPrefix(c) ==
    CASE c = "Campaign" -> "unknown campaign subcommand: "
      [] c = "Device"   -> "unknown device subcommand: "
      [] c = "Group"    -> "unknown group subcommand: "
      [] c = "Package"  -> "unknown package subcommand: "
      [] c = "Update"   -> "unknown update subcommand: "

\* the backend operations of each domain
DomainOps(c) ==
    CASE c = "Campaign" -> {"Campaigner::list_from_flags", "Campaigner::create_from_flags",
                            "Campaigner::launch_campaign", "Campaigner::cancel_campaign"}
      [] c \in {"Device", "Group"} ->
                           {"Registry::list_device_flags", "Registry::create_device",
                            "Registry::delete_device", "Registry::list_group_flags",
                            "Registry::create_group", "Registry::add_to_group",
                            "Registry::remove_from_group", "Registry::rename_group"}
      [] c = "Package"  -> {"Reposerver::add_package", "Reposerver::get_package"}
      [] c = "Update"   -> {"Director::create_mtu", "Director::launch_mtu"}

\* the routing table: the operation of a row, the flags it requires, and the
\* parameters it is called with
Id(f) == [id |-> WellFormed(f)]
Row(op, req, params) == [op |-> op, req |-> req, params |-> params]
RoutingTable(c, s, flags) ==
    CASE c = "Campaign" /\ s = "List"   -> Row("Campaigner::list_from_flags", {}, <<flags>>)
      [] c = "Campaign" /\ s = "Create" -> Row("Campaigner::create_from_flags", {}, <<flags>>)
      [] c = "Campaign" /\ s = "Launch" -> Row("Campaigner::launch_campaign", {"campaign"}, <<Id("campaign")>>)
      [] c = "Campaign" /\ s = "Cancel" -> Row("Campaigner::cancel_campaign", {"campaign"}, <<Id("campaign")>>)
      [] c = "Device" /\ s = "List"     -> Row("Registry::list_device_flags", {}, <<flags>>)
      [] c = "Device" /\ s = "Create"   -> Row("Registry::create_device", {"name", "id"},
                                               <<WellFormed("name"), WellFormed("id"),
                                                 Converted("DeviceType::from_flags", flags)>>)
      [] c = "Device" /\ s = "Delete"   -> Row("Registry::delete_device", {"device"}, <<Id("device")>>)
      [] c = "Group" /\ s = "List"      -> Row("Registry::list_group_flags", {}, <<flags>>)
      [] c = "Group" /\ s = "Create"    -> Row("Registry::create_group", {"name"}, <<WellFormed("name")>>)
      [] c = "Group" /\ s = "Add"       -> Row("Registry::add_to_group", {"group", "device"},
                                               <<Id("group"), Id("device")>>)
      [] c = "Group" /\ s = "Remove"    -> Row("Registry::remove_from_group", {"group", "device"},
                                               <<Id("group"), Id("device")>>)
      [] c = "Group" /\ s = "Rename"    -> Row("Registry::rename_group", {"group", "name"},
                                               <<Id("group"), WellFormed("name")>>)
      [] c = "Package" /\ s = "Add"     -> Row("Reposerver::add_package", {},
                                               <<Converted("TargetPackage::from_flags", flags)>>)
      [] c = "Package" /\ s = "Fetch"   -> Row("Reposerver::get_package", {"name", "version"},
                                               <<WellFormed("name"), WellFormed("version")>>)
      [] c = "Update" /\ s = "Create"   -> Row("Director::create_mtu", {"targets"},
                                               <<Converted("TufUpdates::from",
                                                   Converted("TargetRequests::from_file",
                                                             WellFormed("targets")))>>)
      [] c = "Update" /\ s = "Launch"   -> Row("Director::launch_mtu", {"update", "device"},
                                               <<Id("update"), Id("device")>>)

Routed == Self # "Init" /\ resolved # "" /\ ~(Self = "Package" /\ resolved = "List")
TheRow == RoutingTable(Self, resolved, Flags)

-----------------------------------------------------------------------------
(* C1 *)

\* C1: a token whose lower-cased form is one of the six command literals (in
\* particular every case mix of a literal) resolves to the corresponding
\* Command; every other token (in particular every proper prefix, extension
\* and abbreviation of a literal, and the empty string) fails with the
\* unknown-command error carrying the token.
C1_CommandResolution ==
    pc = "resolved" =>
        LET l == ToLowercase(token) IN
        /\ \A c \in Commands :
             /\ l = CommandLiteral(c) => command = Ok(c)
             /\ token \in CaseMixes(CommandLiteral(c)) => command = Ok(c)
        /\ l \notin CommandLiterals =>
             command = Err(CommandError("unknown command: ", token))
        /\ (\/ token \in Abbreviations
            \/ token = <<>>
            \/ \E c \in Commands : token \in ProperPrefixes(CommandLiteral(c))
                                           \cup Extensions(CommandLiteral(c)))
             => command.tag = "Err"

C1_Witness ==
    /\ pc = "resolved"
    /\ token = Text(<<"C","a","M","p","A","i","G","n">>)
    /\ command = Ok("Campaign")

-----------------------------------------------------------------------------
(* C2 *)

RequiredPresent == \A f \in TheRow.req : Flags[f] = Some(WellFormed(f))
ConversionsOk == \A i \in Indexes("convert") : trace[i].ret.tag = "Ok"

\* C2: when a run of a routed (Command, Subcommand) pair has ended with the
\* configuration loaded, every required flag present and well-formed and every
\* conversion successful, exactly one backend operation was invoked: the one
\* of the pair's row, with the parameters of that row.
C2_ExactlyOneRoutedCall ==
    (Done /\ Routed /\ ConfigLoaded /\ RequiredPresent /\ ConversionsOk) =>
        /\ Len(BackendCalls) = 1
        /\ BackendCalls[1].op = TheRow.op
        /\ BackendCalls[1].args = TheRow.params
        /\ result.tag # "Panic"

C2_Witness ==
    /\ Done /\ Self = "Group" /\ resolved = "Remove"
    /\ Len(BackendCalls) = 1
    /\ BackendCalls[1].op = "Registry::remove_from_group"
    /\ BackendCalls[1].args = <<Id("group"), Id("device")>>

-----------------------------------------------------------------------------
(* C3 *)

MissingParameter(f) == [kind |-> "MissingParameter", origin |-> f, detail |-> <<>>]

\* C3: when a run has ended with the configuration loaded and a required flag
\* of the resolved subcommand absent, the result is a MissingParameter error
\* value naming an absent required flag, and no backend operation was invoked.
C3_MissingParameterIsAnError ==
    (Done /\ Routed /\ ConfigLoaded /\ \E f \in TheRow.req : Flags[f] = NoneV) =>
        /\ \E f \in TheRow.req : Flags[f] = NoneV /\ result = Err(MissingParameter(f))
        /\ BackendCalls = <<>>

-----------------------------------------------------------------------------
(* C4 *)

NotImplemented == [kind |-> "NotImplemented", origin |-> "Package::List", detail |-> <<>>]

\* C4: a run of Package::List ends with a NotImplemented error value and
\* without any backend operation invoked.
C4_PackageListNotImplemented ==
    (Done /\ Self = "Package" /\ resolved = "List") =>
        /\ result = Err(NotImplemented)
        /\ BackendCalls = <<>>

-----------------------------------------------------------------------------
(* C5 *)

FailedAt(k) == {i \in Indexes(k) : trace[i].ret.tag = "Err"}

\* C5: when the subcommand token fails to resolve or an identifier flag fails
\* to parse, that failure is the last thing that happened in the run: the run
\* has ended with it as its result and no backend operation was invoked before
\* or after it.
C5_FailureShortCircuits ==
    \A i \in FailedAt("resolve") \cup FailedAt("parse") :
        /\ Done
        /\ result = trace[i].ret
        /\ i = Len(trace)
        /\ BackendCalls = <<>>

C5_Witness ==
    /\ Done /\ Self = "Group" /\ resolved = "Add"
    /\ Flags["group"] = Some(Malformed("group"))
    /\ Flags["device"] = Some(WellFormed("device"))
    /\ result = Err(ParseError(Malformed("group")))
    /\ BackendCalls = <<>>

-----------------------------------------------------------------------------
(* C6 *)

\* C6: a run that invoked a backend operation invoked it once and ended with
\* exactly what that invocation returned: the same failure value, or success.
C6_BackendResultUnchanged ==
    BackendCalls # <<>> =>
        /\ Done
        /\ Len(BackendCalls) = 1
        /\ result = BackendCalls[1].ret
        /\ trace[Len(trace)] = BackendCalls[1]

C6_Witness ==
    /\ Done
    /\ Len(BackendCalls) = 1
    /\ BackendCalls[1].ret = Err(CollabError("Campaigner::launch_campaign", NumErrs))
    /\ result = Err(CollabError("Campaigner::launch_campaign", NumErrs))

-----------------------------------------------------------------------------
(* C7 *)

\* C7: under a command other than Init, a subcommand token resolves exactly
\* when its lower-cased form is one of that command's own literals, and then
\* to the value of that literal; any other token, the literals of other
\* commands included, ends the run with the unknown-subcommand error of the
\* parent carrying the token; and every backend operation invoked belongs to
\* the domain of the command.
C7_SubcommandScopedToParent ==
    /\ (pc # "exec" /\ Self # "Init" /\ sub # NoneV) =>
          LET l == ToLowercase(sub.val.name) IN
          IF l \in OwnLiterals(Self)
          THEN resolved = SubValue(l)
          ELSE /\ Done
               /\ resolved = ""
               /\ result = Err(CommandError(UnknownSubcommandPrefix(Self), sub.val.name))
               /\ BackendCalls = <<>>
    /\ \A i \in 1..Len(BackendCalls) : BackendCalls[i].op \in DomainOps(Self)

C7_Witness ==
    /\ Done /\ Self = "Update" /\ sub # NoneV
    /\ sub.val.name = Text(<<"L","I","S","T">>)
    /\ result = Err(CommandError("unknown update subcommand: ", Text(<<"L","I","S","T">>)))

-----------------------------------------------------------------------------
(* C8 *)

\* C8: a run of Command::Init consists of exactly one invocation of
\* Config::init_from_flags, whose result is the result of the run: no
\* subcommand is resolved, the default configuration is not loaded and no
\* backend operation is invoked, whatever the subcommand token and flags.
C8_InitOnlyBootstraps ==
    (pc # "exec" /\ Self = "Init") =>
        /\ Done
        /\ resolved = ""
        /\ trace = <<Ev("config", "Config::init_from_flags", <<>>, result)>>
        /\ result.tag \in {"Ok", "Err"}

C8_Witness ==
    /\ Done /\ Self = "Init" /\ sub # NoneV
    /\ sub.val.name = Text(<<"f","r","o","b">>)
    /\ result = Ok(Unit)

-----------------------------------------------------------------------------
(* C9 *)

FromFileCalls == {i \in Indexes("convert") : trace[i].op = "TargetRequests::from_file"}

\* C9: in a run of Update/Create with --targets present, create_mtu is only
\* ever invoked after TargetRequests::from_file succeeded on the given path and
\* TufUpdates::from composed its value; a failed from_file ends the run with
\* that very failure and no backend call; a successful one is followed by
\* exactly one create_mtu call with exactly the composed update set.
C9_TargetsConvertedBeforeCreate ==
    (Done /\ Self = "Update" /\ resolved = "Create" /\ Flags["targets"] # NoneV) =>
        /\ ConfigLoaded => FromFileCalls # {}
        /\ BackendCalls # <<>> => FromFileCalls # {}
        /\ \A i \in FromFileCalls :
             /\ trace[i].args = <<Flags["targets"].val>>
             /\ trace[i].ret.tag = "Err" =>
                  /\ result = trace[i].ret
                  /\ result.err.kind = "Collaborator"
                  /\ result.err.origin = "TargetRequests::from_file"
                  /\ BackendCalls = <<>>
             /\ trace[i].ret.tag = "Ok" =>
                  /\ Len(trace) = i + 2
                  /\ trace[i + 1] = Ev("convert", "TufUpdates::from", <<trace[i].ret.val>>,
                                       Ok(Converted("TufUpdates::from", trace[i].ret.val)))
                  /\ trace[i + 2].kind = "backend"
                  /\ trace[i + 2].op = "Director::create_mtu"
                  /\ trace[i + 2].args = <<trace[i + 1].ret.val>>
                  /\ Len(BackendCalls) = 1

C9_Witness ==
    /\ Done /\ Self = "Update" /\ resolved = "Create"
    /\ Len(BackendCalls) = 1
    /\ BackendCalls[1].op = "Director::create_mtu"
    /\ BackendCalls[1].args = <<Converted("TufUpdates::from",
                                  Converted("TargetRequests::from_file", WellFormed("targets")))>>

-----------------------------------------------------------------------------
(* C10 *)

\* C10: in a run of a command other than Init the subcommand is resolved
\* first, Config::load_default is invoked second and only if the resolution
\* succeeded, and flag reads, parses, conversions and the backend call come
\* after it; when load_default fails the run ends with that failure and
\* nothing was read or invoked after it, for every subcommand.
C10_ResolveLoadExtractDispatch ==
    (Self # "Init" /\ trace # <<>>) =>
        /\ Indexes("resolve") = {1}
        /\ trace[1].ret.tag = "Err" => Len(trace) = 1
        /\ Indexes("config") \subseteq {2}
        /\ \A i \in Indexes("config") : trace[i].op = "Config::load_default"
        /\ Done => (trace[1].ret.tag = "Ok" => Indexes("config") = {2})
        /\ \A i \in Indexes("config") :
             trace[i].ret.tag = "Err" => (Done /\ result = trace[i].ret /\ Len(trace) = 2)
        /\ \A i \in Indexes("backend") : i = Len(trace) /\ i > 2

C10_Witness ==
    /\ Done /\ Self = "Package" /\ resolved = "List"
    /\ Len(trace) = 2
    /\ trace[2].op = "Config::load_default"
    /\ result = Err(CollabError("Config::load_default", 1))

====
